---- MODULE Spec2Model ----
(***************************************************************************)
(* Model of src/app.py: the blog backend's sign-in, the JWT issue/verify   *)
(* pair, the auth_required gate and the handlers behind it.                *)
(*                                                                         *)
(* Time is counted in ticks of 1/TicksPerSec second.  A token's "exp" is a *)
(* whole number of seconds, as jwt.encode writes it.  Python's None is the *)
(* string "None".  A header is a sequence of atoms: a word, a space, or a  *)
(* whole token string.                                                     *)
(***************************************************************************)
EXTENDS Integers, Sequences, FiniteSets, TLC

VARIABLES now,        \* wall clock, in ticks
          jwtLegacy,  \* which PyJWT the build has: TRUE before 2.6 (exp < int(now)), FALSE since (exp <= now)
          supabase,   \* whether the Supabase client was created at start-up
          posts,      \* rows of the Supabase table 'posts', in insertion order
          resp,       \* the response to the request being answered at this instant
          pc,         \* per in-flight request: "idle" or "handler" (gate passed, f not yet run)
          ctx,        \* per in-flight request object: the attributes the gate attaches
          req         \* per in-flight request: what it carries

vars == <<now, jwtLegacy, supabase, posts, resp, pc, ctx, req>>

----------------------------------------------------------------------------
(* Bounds *)

TicksPerSec == 2
MaxPosts == 1
NumReq == 2

----------------------------------------------------------------------------
(* Configuration and the static user table *)

None == "None"

SECRET_KEY == "SECRET_KEY"

OtherKey == "another-secret"

TOKEN_HOURS == 24

LifetimeSecs == TOKEN_HOURS * 3600

LifetimeTicks == LifetimeSecs * TicksPerSec

RegEmail == "macaulaydavid88@gmail.com"

\* hashlib.sha256(password.encode()).hexdigest(): a digest, injective on the
\* strings of the model; None has no encode() and raises AttributeError.
hash_password(password) == <<"sha256", password>>

hash_password_raises(password) == password = None

users ==
  (RegEmail :> [password_hash |-> hash_password("password123"),
                id |-> "user-001",
                email |-> RegEmail])

----------------------------------------------------------------------------
(* Tokens *)

NoTok == [kind |-> "none", key |-> None, userId |-> None, email |-> None,
          expKind |-> "absent", exp |-> 0]

\* A string that is not three base64url segments.
Garbage == [NoTok EXCEPT !.kind = "garbage"]

Jwt(key, userId, email, expKind, exp) ==
  [kind |-> "jwt", key |-> key, userId |-> userId, email |-> email,
   expKind |-> expKind, exp |-> exp]

\* A faulty variant: a lifetime of 23 hours.
generate_jwt_token_short(user_id, email, t) ==
  Jwt(SECRET_KEY, user_id, email, "int", (t \div TicksPerSec) + LifetimeSecs - 3600)

\* A faulty variant: the two identity claims exchanged.
generate_jwt_token_swapped(user_id, email, t) ==
  Jwt(SECRET_KEY, email, user_id, "int", (t \div TicksPerSec) + LifetimeSecs)

\* jwt.encode turns the datetime now + 24h into whole seconds (timegm of the
\* time tuple), dropping the fraction.
generate_jwt_token(user_id, email, t) ==
  Jwt(SECRET_KEY, user_id, email, "int", (t \div TicksPerSec) + LifetimeSecs)

\* ExpiredSignatureError's condition on an integer exp at clock t.
Expired(exp, t) ==
  IF jwtLegacy THEN exp < (t \div TicksPerSec)
               ELSE exp * TicksPerSec <= t


\* A faulty variant: the expiry is read before the signature is checked.
jwt_decode_exp_first(tok, key, t) ==
  IF tok.kind # "jwt" THEN [err |-> "DecodeError", payload |-> NoTok]
  ELSE IF tok.expKind = "int" /\ Expired(tok.exp, t)
    THEN [err |-> "ExpiredSignatureError", payload |-> NoTok]
  ELSE IF tok.key # key THEN [err |-> "InvalidSignatureError", payload |-> NoTok]
  ELSE IF tok.expKind = "null" THEN [err |-> "TypeError", payload |-> NoTok]
  ELSE IF tok.expKind = "str" THEN [err |-> "DecodeError", payload |-> NoTok]
  ELSE [err |-> "", payload |-> tok]

\* jwt.decode(token, key, algorithms=["HS256"]) with PyJWT's default options:
\* segments are decoded, then the signature is checked, then the claims that
\* are present are validated.  No claim is required; "exp" is read with
\* int(), whose ValueError becomes DecodeError and whose TypeError escapes.
jwt_decode(tok, key, t) ==
  IF tok.kind # "jwt" THEN [err |-> "DecodeError", payload |-> NoTok]
  ELSE IF tok.key # key THEN [err |-> "InvalidSignatureError", payload |-> NoTok]
  ELSE IF tok.expKind = "absent" THEN [err |-> "", payload |-> tok]
  ELSE IF tok.expKind = "null" THEN [err |-> "TypeError", payload |-> NoTok]
  ELSE IF tok.expKind = "str" THEN [err |-> "DecodeError", payload |-> NoTok]
  ELSE IF Expired(tok.exp, t) THEN [err |-> "ExpiredSignatureError", payload |-> NoTok]
  ELSE [err |-> "", payload |-> tok]

\* The subclasses of jwt.InvalidTokenError other than ExpiredSignatureError
\* that jwt_decode raises.
InvalidTokenErrors == {"DecodeError", "InvalidSignatureError"}

\* A faulty variant: one message for every failure.
verify_jwt_token_one_message(tok, t) ==
  LET d == jwt_decode(tok, SECRET_KEY, t) IN
  IF d.err = "" THEN [ok |-> TRUE, message |-> "", status |-> 200, payload |-> d.payload]
  ELSE [ok |-> FALSE, message |-> "Invalid token", status |-> 401, payload |-> NoTok]

verify_jwt_token(tok, t) ==
  LET d == jwt_decode(tok, SECRET_KEY, t) IN
  IF d.err = "" THEN [ok |-> TRUE, message |-> "", status |-> 200, payload |-> d.payload]
  ELSE IF d.err = "ExpiredSignatureError"
    THEN [ok |-> FALSE, message |-> "Token expired", status |-> 401, payload |-> NoTok]
  ELSE IF d.err \in InvalidTokenErrors
    THEN [ok |-> FALSE, message |-> "Invalid token", status |-> 401, payload |-> NoTok]
  ELSE [ok |-> FALSE, message |-> "Token verification error", status |-> 401,
        payload |-> NoTok]

----------------------------------------------------------------------------
(* The Authorization header *)

Word(s) == [a |-> s, tok |-> NoTok]

SP == Word(" ")

TokAtom(tok) == [a |-> "token", tok |-> tok]

\* str.split(" "): the pieces between single spaces, empty pieces kept.
RECURSIVE split(_)
split(s) ==
  IF \A i \in 1..Len(s) : s[i] # SP THEN <<s>>
  ELSE LET i == CHOOSE k \in 1..Len(s) : s[k] = SP /\ \A j \in 1..(k-1) : s[j] # SP
       IN <<SubSeq(s, 1, i-1)>> \o split(SubSeq(s, i+1, Len(s)))

\* The token a piece of the header is, as jwt.decode reads it: a whole token
\* string, or something with no three segments.
TokenOf(word) ==
  IF Len(word) = 1 /\ word[1].a = "token" THEN word[1].tok ELSE Garbage

GateReject(message, passed) ==
  [ok |-> FALSE, status |-> 401, message |-> message, passed |-> passed,
   user_id |-> None, user_email |-> None]

\* decorated_function up to the call of f: the outcome of the gate, the piece
\* of the header it passed to verify_jwt_token (none: <<>>), and what it
\* attaches to the request on success.
auth_gate(hdr, t) ==
  IF hdr = <<>> THEN GateReject("Authorization token is missing!", <<>>)
  ELSE LET parts == split(hdr) IN
    IF Len(parts) < 2 THEN GateReject("Token format is 'Bearer <token>'", <<>>)
    ELSE LET v == verify_jwt_token(TokenOf(parts[2]), t) IN
      IF ~v.ok THEN GateReject(v.message, <<parts[2]>>)
      ELSE [ok |-> TRUE, status |-> 200, message |-> "", passed |-> <<parts[2]>>,
            user_id |-> v.payload.userId, user_email |-> v.payload.email]

----------------------------------------------------------------------------
(* The handlers *)

\* Python's "not x" on a JSON string or a missing key.
Falsy(x) == x \in {None, ""}

Row(title, content, c) ==
  [title |-> title, content |-> content,
   author_id |-> c.user_id, author_email |-> c.user_email]

Handled(status, message, c, rows) ==
  [status |-> status, message |-> message, userId |-> c.user_id,
   email |-> c.user_email, posts |-> rows]

\* signin: the response, and the token it carries on success.
signin(email, password, t) ==
  IF email \notin DOMAIN users
    THEN [status |-> 401, message |-> "Invalid credentials", token |-> NoTok,
          userId |-> None, email |-> None]
  ELSE IF hash_password_raises(password)
    THEN [status |-> 500, message |-> "Internal Server Error", token |-> NoTok,
          userId |-> None, email |-> None]
  ELSE IF users[email].password_hash = hash_password(password)
    THEN [status |-> 200, message |-> "",
          token |-> generate_jwt_token(users[email].id, users[email].email, t),
          userId |-> users[email].id, email |-> users[email].email]
  ELSE [status |-> 401, message |-> "Invalid credentials", token |-> NoTok,
        userId |-> None, email |-> None]

verify_token_endpoint(c, rows) == Handled(200, "Token is valid", c, rows)

\* A faulty variant: the row is inserted before title and content are checked.
create_post_insert_first(c, title, content, dbOk, rows) ==
  IF ~supabase THEN Handled(500, "Supabase client not initialized", c, rows)
  ELSE IF ~dbOk THEN Handled(500, "Failed to create post", c, rows)
  ELSE IF Falsy(title) \/ Falsy(content)
    THEN Handled(400, "Title and content are required", c,
                 Append(rows, Row(title, content, c)))
  ELSE Handled(201, "Post created successfully", c,
               Append(rows, Row(title, content, c)))

\* create_post: dbOk is whether the insert's execute() returns (it may raise).
create_post(c, title, content, dbOk, rows) ==
  IF ~supabase THEN Handled(500, "Supabase client not initialized", c, rows)
  ELSE IF Falsy(title) \/ Falsy(content)
    THEN Handled(400, "Title and content are required", c, rows)
  ELSE IF ~dbOk THEN Handled(500, "Failed to create post", c, rows)
  ELSE Handled(201, "Post created successfully", c,
               Append(rows, Row(title, content, c)))

\* upload_image: file is "absent" (no 'image' part), "" (empty filename) or a name.
upload_image(c, file, rows) ==
  IF file = "absent" THEN Handled(400, "No image file provided", c, rows)
  ELSE IF file = "" THEN Handled(400, "No selected file", c, rows)
  ELSE Handled(200, "Image uploaded successfully (simulated)", c, rows)

\* gemini_proxy: upstream is what the call to the Gemini API comes to.
gemini_proxy(c, prompt, upstream, rows) ==
  IF Falsy(prompt) THEN Handled(400, "Prompt is required for Gemini API call", c, rows)
  ELSE IF upstream = "nokey"
    THEN Handled(500, "Gemini API key is not configured on the backend", c, rows)
  ELSE IF upstream = "text" THEN Handled(200, "", c, rows)
  ELSE Handled(429, "Gemini API HTTP Error", c, rows)

get_posts(dbOk) ==
  IF ~supabase THEN [status |-> 500, message |-> "Supabase client not initialized"]
  ELSE IF ~dbOk THEN [status |-> 500, message |-> "Failed to fetch posts"]
  ELSE [status |-> 200, message |-> ""]

\* The table numbers its rows 1, 2, ...
get_single_post(post_id, dbOk) ==
  IF ~supabase THEN [status |-> 500, message |-> "Supabase client not initialized"]
  ELSE IF ~dbOk THEN [status |-> 500, message |-> "Failed to fetch post"]
  ELSE IF post_id \notin 1..Len(posts) THEN [status |-> 404, message |-> "Post not found"]
  ELSE [status |-> 200, message |-> ""]

----------------------------------------------------------------------------
(* The inputs the requests are drawn from *)

\* Sign-ins happen within the first second.
IssueTimes == 0..TicksPerSec

\* A token issued a second more than its lifetime before the clock's origin.
OldTime == 0 - (LifetimeTicks + TicksPerSec)

\* The clock readings of the model: the issue times, 23h59m after the first,
\* and the ticks around the expiry of the tokens issued at the issue times.
Times ==
  IssueTimes
  \cup {LifetimeTicks - 60 * TicksPerSec}
  \cup ((LifetimeTicks - TicksPerSec)..(LifetimeTicks + 2 * TicksPerSec))

Identities == {<<"user-001", RegEmail>>, <<"user-002", "guest@example.com">>}

IssuableTokens ==
  {generate_jwt_token(id[1], id[2], t) : id \in Identities, t \in IssueTimes}

OldToken == generate_jwt_token("user-001", RegEmail, OldTime)

ForgedTokens ==
  {Jwt(OtherKey, "user-001", RegEmail, "int", LifetimeSecs),
   Jwt(OtherKey, "user-001", RegEmail, "int", OldToken.exp),
   Jwt(OtherKey, "user-001", RegEmail, "absent", 0)}

IncompleteTokens ==
  {Jwt(SECRET_KEY, None, RegEmail, "int", LifetimeSecs),
   Jwt(SECRET_KEY, "user-001", None, "int", LifetimeSecs),
   Jwt(SECRET_KEY, "user-001", RegEmail, "absent", 0),
   Jwt(SECRET_KEY, "user-001", RegEmail, "null", 0),
   Jwt(SECRET_KEY, "user-001", RegEmail, "str", 0)}

Tokens ==
  IssuableTokens \cup {OldToken} \cup ForgedTokens \cup IncompleteTokens \cup {Garbage}

Bearer(tok) == <<Word("Bearer"), SP, TokAtom(tok)>>

Tok1 == generate_jwt_token("user-001", RegEmail, 0)

Tok2 == generate_jwt_token("user-002", "guest@example.com", 0)

OddHeaders ==
  {<<Word("Bearer")>>,
   <<Word("Bearer"), SP>>,
   <<Word("Basic"), SP, TokAtom(Tok1)>>,
   <<Word("Bearer"), SP, TokAtom(Tok1), SP, Word("x")>>,
   <<Word("Bearer"), SP, SP, TokAtom(Tok1)>>,
   <<Word("Bearer"), TokAtom(Tok1)>>,
   <<TokAtom(Tok1)>>}

\* <<>> is the header left out (or empty): request.headers.get gives None.
Headers == {<<>>} \cup {Bearer(tok) : tok \in Tokens} \cup OddHeaders

GateHeaders ==
  {<<>>, <<Word("Bearer")>>, <<Word("Basic"), SP, TokAtom(Tok1)>>,
   Bearer(Tok1), Bearer(Tok2), Bearer(OldToken),
   Bearer(Jwt(OtherKey, "user-001", RegEmail, "int", LifetimeSecs))}

ConcHeaders == {<<>>, Bearer(Tok1), Bearer(Tok2)}

Emails == {RegEmail, "nobody@example.com", None}

Passwords == {"password123", "letmein", "", None}

PostInputs == {<<"Hello", "Body">>, <<"", "Body">>, <<"Hello", "">>, <<None, "Body">>}

Files == {"absent", "", "a.png"}

Prompts == {"", "Summarise"}

Upstreams == {"nokey", "text", "http"}

Reqs == 1..NumReq

ProtectedRoutes == {"verify_token_endpoint", "create_post", "upload_image", "gemini_proxy"}

----------------------------------------------------------------------------
(* State *)

NoCtx == [user_id |-> None, user_email |-> None]

NoReq == [route |-> "none", hdr |-> <<>>, inp |-> <<>>]

NoResp ==
  [route |-> "none", at |-> 0, hdr |-> <<>>, inp |-> <<>>, status |-> 0,
   message |-> "", invoked |-> FALSE, passed |-> <<>>, userId |-> None,
   email |-> None, token |-> NoTok]

Init ==
  /\ now = 0
  /\ jwtLegacy \in BOOLEAN
  /\ supabase \in BOOLEAN
  /\ posts = <<>>
  /\ resp = NoResp
  /\ pc = [r \in Reqs |-> "idle"]
  /\ ctx = [r \in Reqs |-> NoCtx]
  /\ req = [r \in Reqs |-> NoReq]

\* The response of a request the gate turned away: f is not called.
Rejected(route, hdr, g) ==
  [NoResp EXCEPT !.route = route, !.at = now, !.hdr = hdr, !.status = g.status,
                 !.message = g.message, !.passed = g.passed]

\* The response of a request whose handler f ran and returned b.
Answered(route, hdr, inp, passed, b) ==
  [NoResp EXCEPT !.route = route, !.at = now, !.hdr = hdr, !.inp = inp,
                 !.status = b.status, !.message = b.message, !.invoked = TRUE,
                 !.passed = passed, !.userId = b.userId, !.email = b.email]

Attached(g) == [user_id |-> g.user_id, user_email |-> g.user_email]

----------------------------------------------------------------------------
(* Requests handled one at a time *)

\* The clock moves on; the response of the last request has been sent.
Tick ==
  /\ \E t \in Times : t > now /\ now' = t
  /\ resp' = NoResp
  /\ UNCHANGED <<jwtLegacy, supabase, posts, pc, ctx, req>>

Signin ==
  \E email \in Emails, password \in Passwords :
    LET s == signin(email, password, now) IN
    /\ resp' = [NoResp EXCEPT !.route = "signin", !.at = now,
                              !.inp = <<email, password>>, !.status = s.status,
                              !.message = s.message, !.token = s.token,
                              !.userId = s.userId, !.email = s.email]
    /\ UNCHANGED <<now, jwtLegacy, supabase, posts, pc, ctx, req>>

VerifyTokenRequest ==
  \E hdr \in Headers :
    LET g == auth_gate(hdr, now) IN
    /\ resp' = IF ~g.ok THEN Rejected("verify_token_endpoint", hdr, g)
               ELSE Answered("verify_token_endpoint", hdr, <<>>, g.passed,
                             verify_token_endpoint(Attached(g), posts))
    /\ UNCHANGED <<now, jwtLegacy, supabase, posts, pc, ctx, req>>

CreatePostRequest ==
  \E hdr \in GateHeaders :
    LET g == auth_gate(hdr, now) IN
    /\ IF ~g.ok
         THEN resp' = Rejected("create_post", hdr, g) /\ posts' = posts
         ELSE \E inp \in PostInputs, dbOk \in BOOLEAN :
                LET b == create_post(Attached(g), inp[1], inp[2], dbOk, posts) IN
                /\ Len(b.posts) <= MaxPosts
                /\ resp' = Answered("create_post", hdr, inp, g.passed, b)
                /\ posts' = b.posts
    /\ UNCHANGED <<now, jwtLegacy, supabase, pc, ctx, req>>

UploadImageRequest ==
  \E hdr \in GateHeaders :
    LET g == auth_gate(hdr, now) IN
    /\ IF ~g.ok
         THEN resp' = Rejected("upload_image", hdr, g) /\ posts' = posts
         ELSE \E file \in Files :
                LET b == upload_image(Attached(g), file, posts) IN
                /\ resp' = Answered("upload_image", hdr, <<file>>, g.passed, b)
                /\ posts' = b.posts
    /\ UNCHANGED <<now, jwtLegacy, supabase, pc, ctx, req>>

GeminiRequest ==
  \E hdr \in GateHeaders :
    LET g == auth_gate(hdr, now) IN
    /\ IF ~g.ok
         THEN resp' = Rejected("gemini_proxy", hdr, g) /\ posts' = posts
         ELSE \E prompt \in Prompts, upstream \in Upstreams :
                LET b == gemini_proxy(Attached(g), prompt, upstream, posts) IN
                /\ resp' = Answered("gemini_proxy", hdr, <<prompt>>, g.passed, b)
                /\ posts' = b.posts
    /\ UNCHANGED <<now, jwtLegacy, supabase, pc, ctx, req>>

GetPosts ==
  \E dbOk \in BOOLEAN :
    LET b == get_posts(dbOk) IN
    /\ resp' = [NoResp EXCEPT !.route = "get_posts", !.at = now,
                              !.status = b.status, !.message = b.message]
    /\ UNCHANGED <<now, jwtLegacy, supabase, posts, pc, ctx, req>>

GetSinglePost ==
  \E post_id \in 1..(MaxPosts + 1), dbOk \in BOOLEAN :
    LET b == get_single_post(post_id, dbOk) IN
    /\ resp' = [NoResp EXCEPT !.route = "get_single_post", !.at = now,
                              !.status = b.status, !.message = b.message]
    /\ UNCHANGED <<now, jwtLegacy, supabase, posts, pc, ctx, req>>

Next ==
  \/ Tick
  \/ Signin
  \/ VerifyTokenRequest
  \/ CreatePostRequest
  \/ UploadImageRequest
  \/ GeminiRequest
  \/ GetPosts
  \/ GetSinglePost

Spec == Init /\ [][Next]_vars

----------------------------------------------------------------------------
(* Requests handled concurrently: each worker runs the gate, then f *)

\* A faulty variant: one request object shared by all workers.
CtxSlotShared(r) == 1

\* flask.request is a context-local proxy: in the worker of request r it
\* stands for r's own request object.
CtxSlot(r) == r

ConcRoutes == {"verify_token_endpoint", "create_post"}

\* The piece of the header the gate passes to verify_jwt_token.
PassedOf(hdr) == <<split(hdr)[2]>>

InFlightCreates == Cardinality({r \in Reqs : req[r].route = "create_post"})

\* decorated_function of request r, up to the call of f.
Enter(r) ==
  /\ pc[r] = "idle"
  /\ \E route \in ConcRoutes, hdr \in ConcHeaders :
       LET g == auth_gate(hdr, now) IN
       IF ~g.ok
         THEN /\ resp' = Rejected(route, hdr, g)
              /\ UNCHANGED <<pc, ctx, req>>
         ELSE /\ route = "create_post" => Len(posts) + InFlightCreates < MaxPosts
              /\ ctx' = [ctx EXCEPT ![CtxSlot(r)] = Attached(g)]
              /\ pc' = [pc EXCEPT ![r] = "handler"]
              /\ req' = [req EXCEPT ![r] =
                           [route |-> route, hdr |-> hdr,
                            inp |-> IF route = "create_post"
                                      THEN <<"Hello", "Body">> ELSE <<>>]]
              /\ resp' = resp
  /\ UNCHANGED <<now, jwtLegacy, supabase, posts>>

\* The request is answered and its request object dropped.
Leave(r) ==
  /\ pc' = [pc EXCEPT ![r] = "idle"]
  /\ req' = [req EXCEPT ![r] = NoReq]
  /\ ctx' = [ctx EXCEPT ![CtxSlot(r)] = NoCtx]

HandlerVerifyToken(r) ==
  /\ pc[r] = "handler"
  /\ req[r].route = "verify_token_endpoint"
  /\ resp' = Answered(req[r].route, req[r].hdr, req[r].inp, PassedOf(req[r].hdr),
                      verify_token_endpoint(ctx[CtxSlot(r)], posts))
  /\ Leave(r)
  /\ UNCHANGED <<now, jwtLegacy, supabase, posts>>

HandlerCreatePost(r) ==
  /\ pc[r] = "handler"
  /\ req[r].route = "create_post"
  /\ \E dbOk \in BOOLEAN :
       LET b == create_post(ctx[CtxSlot(r)], req[r].inp[1], req[r].inp[2], dbOk, posts) IN
       /\ resp' = Answered(req[r].route, req[r].hdr, req[r].inp, PassedOf(req[r].hdr), b)
       /\ posts' = b.posts
  /\ Leave(r)
  /\ UNCHANGED <<now, jwtLegacy, supabase>>

NextConc ==
  \E r \in Reqs :
    \/ Enter(r)
    \/ HandlerVerifyToken(r)
    \/ HandlerCreatePost(r)

SpecConc == Init /\ [][NextConc]_vars

----------------------------------------------------------------------------
(* What the specification calls a valid token and a well-formed header *)

Gated == resp.route \in ProtectedRoutes

\* The token of the piece the gate passed to verify_jwt_token.
PassedTok == TokenOf(resp.passed[1])

SignatureOk(tok) == tok.kind = "jwt" /\ tok.key = SECRET_KEY

SchemaOk(tok) == tok.userId # None /\ tok.email # None /\ tok.expKind = "int"

ExpiryLater(tok, t) == tok.exp * TicksPerSec > t

ValidToken(tok, t) == SignatureOk(tok) /\ SchemaOk(tok) /\ ExpiryLater(tok, t)

\* Bearer, one space, one token.
BearerShape(hdr) ==
  /\ Len(hdr) = 3
  /\ hdr[1] = Word("Bearer")
  /\ hdr[2] = SP
  /\ hdr[3].a = "token"

\* Two space-separated parts, the first the word Bearer (the token may be empty).
BearerAndOnePart(hdr) ==
  /\ Len(hdr) \in {2, 3}
  /\ hdr[1] = Word("Bearer")
  /\ hdr[2] = SP
  /\ Len(hdr) = 3 => hdr[3].a = "token"

Authorized(hdr, t) == BearerShape(hdr) /\ ValidToken(hdr[3].tok, t)

----------------------------------------------------------------------------
(* The claims *)

\* C1: a token handed to verify_jwt_token by the gate is accepted if and only
\* if its signature verifies against SECRET_KEY, its expiry is strictly later
\* than the verification time and its payload carries subject id, email and
\* expiry.
C1_AcceptedIffValid ==
  (Gated /\ resp.passed # <<>>) =>
    (resp.invoked <=> ValidToken(PassedTok, resp.at))

\* C2: the wrapped handler runs only for a request whose header is present,
\* of the shape Bearer <token> and whose token is valid; every other request
\* to a protected route is answered 401 without the handler running.
C2_HandlerOnlyWhenAuthorized ==
  Gated =>
    /\ resp.invoked => Authorized(resp.hdr, resp.at)
    /\ ~Authorized(resp.hdr, resp.at) => (~resp.invoked /\ resp.status = 401)

\* C3: a non-empty Authorization header that is not the word Bearer, one
\* space and one token (another scheme word, no space, more than two parts)
\* is rejected 401 as malformed and no piece of it reaches verify_jwt_token.
C3_OnlyBearerShapeIsVerified ==
  (Gated /\ resp.hdr # <<>> /\ ~BearerAndOnePart(resp.hdr)) =>
    /\ resp.status = 401
    /\ resp.message = "Token format is 'Bearer <token>'"
    /\ resp.passed = <<>>
    /\ ~resp.invoked

\* A sign-in that must fail: an unregistered email, or a registered email
\* with anything but its password.
FailingSignin ==
  /\ resp.route = "signin"
  /\ \/ resp.inp[1] \notin DOMAIN users
     \/ resp.inp[2] # "password123"

\* C4: every failing sign-in, whether the email is unregistered or the
\* password wrong (empty and absent included), is answered 401 with the same
\* "Invalid credentials" message.
C4_FailedSigninIndistinguishable ==
  FailingSignin => (resp.status = 401 /\ resp.message = "Invalid credentials")

\* The answer to a verify-token request carrying the token generate_jwt_token
\* makes for id at t0.
AnswerFor(id, t0) ==
  /\ resp.route = "verify_token_endpoint"
  /\ resp.hdr = Bearer(generate_jwt_token(id[1], id[2], t0))
  /\ resp.at >= t0

RejectedExpired == ~resp.invoked /\ resp.status = 401 /\ resp.message = "Token expired"

\* Once verify_jwt_token calls the carried token expired, it accepts it at no
\* later clock reading.
NeverAcceptedAgain ==
  (resp.route = "verify_token_endpoint" /\ resp.passed # <<>> /\ RejectedExpired) =>
    \A t \in Times : t > resp.at => ~verify_jwt_token(PassedTok, t).ok

\* C5 as claimed: a token generated at t0 is accepted at every time strictly
\* before t0 + 24h, rejected as expired at every time after t0 + 24h, and
\* once rejected as expired never accepted again.
C5_ExpiresExactlyAt24h ==
  /\ \A id \in Identities, t0 \in IssueTimes :
       AnswerFor(id, t0) =>
         /\ resp.at < t0 + LifetimeTicks => (resp.invoked /\ resp.status = 200)
         /\ resp.at > t0 + LifetimeTicks => RejectedExpired
  /\ NeverAcceptedAgain

\* C5 as amended: a token generated at t0 is accepted at every time up to
\* t0 + 24h - 1s, rejected as expired at every time from t0 + 24h + 1s on,
\* and once rejected as expired never accepted again.
C5_ExpiresWithinASecondOf24h ==
  /\ \A id \in Identities, t0 \in IssueTimes :
       AnswerFor(id, t0) =>
         /\ resp.at <= t0 + LifetimeTicks - TicksPerSec =>
              (resp.invoked /\ resp.status = 200)
         /\ resp.at >= t0 + LifetimeTicks + TicksPerSec => RejectedExpired
  /\ NeverAcceptedAgain

C5_Witness ==
  /\ AnswerFor(<<"user-001", RegEmail>>, TicksPerSec)
  /\ resp.at >= 2 * TicksPerSec + LifetimeTicks
  /\ RejectedExpired

\* C6: the token a successful sign-in returns verifies at once to the
\* principal's id and email, and a protected endpoint called with it reports
\* exactly that id and email.
C6_SigninTokenNamesThePrincipal ==
  /\ (resp.route = "signin" /\ resp.status = 200) =>
       LET v == verify_jwt_token(resp.token, resp.at)
           u == users[resp.inp[1]]
       IN v.ok /\ v.payload.userId = u.id /\ v.payload.email = u.email
  /\ \A e \in DOMAIN users, t0 \in IssueTimes :
       AnswerFor(<<users[e].id, users[e].email>>, t0) =>
         /\ resp.at = t0 => (resp.invoked /\ resp.status = 200)
         /\ resp.invoked => (resp.userId = users[e].id /\ resp.email = users[e].email)

C6_Witness ==
  /\ AnswerFor(<<users[RegEmail].id, RegEmail>>, resp.at)
  /\ resp.status = 200
  /\ resp.userId = "user-001"

\* C7: a token signed with another secret is rejected as an invalid token
\* whatever its claims: never accepted, and never reported as expired.
C7_ForeignSignatureIsInvalid ==
  (Gated /\ resp.passed # <<>> /\ PassedTok.kind = "jwt" /\ PassedTok.key # SECRET_KEY) =>
    /\ ~resp.invoked
    /\ resp.status = 401
    /\ resp.message = "Invalid token"

C7_Witness ==
  /\ Gated /\ resp.passed # <<>>
  /\ PassedTok.key = OtherKey /\ PassedTok.expKind = "int"
  /\ PassedTok.exp * TicksPerSec < resp.at
  /\ resp.message = "Invalid token"

VerifyRejected == Gated /\ resp.passed # <<>> /\ ~resp.invoked

\* The failure kind the specification gives a rejected token.
KindOf(tok, t) ==
  IF tok.kind # "jwt" THEN "malformed"
  ELSE IF tok.key # SECRET_KEY THEN "invalid"
  ELSE IF tok.expKind = "null" THEN "fault"
  ELSE IF ~SchemaOk(tok) THEN "malformed"
  ELSE "expired"

\* C8 as claimed: a verification failure is answered 401 with a message of
\* its kind, different for expired, invalid-signature and malformed tokens,
\* and an internal fault is reported as the invalid-signature kind.
C8_ThreeKindsDistinguished ==
  VerifyRejected =>
    LET k == KindOf(PassedTok, resp.at) IN
    /\ resp.status = 401
    /\ k = "expired" => resp.message = "Token expired"
    /\ k \in {"invalid", "fault"} => resp.message = "Invalid token"
    /\ k = "malformed" => resp.message \notin {"Token expired", "Invalid token"}

\* C8 as amended: a verification failure is answered 401 with "Token expired"
\* exactly for a correctly signed token whose integer expiry has passed, with
\* "Invalid token" exactly for an undecodable token, a foreign signature or a
\* non-integer expiry string alike, and with "Token verification error"
\* exactly for an internal fault.
C8_ExpiredInvalidFault ==
  VerifyRejected =>
    LET tok == PassedTok IN
    /\ resp.status = 401
    /\ resp.message = "Token expired" <=> (SignatureOk(tok) /\ tok.expKind = "int")
    /\ resp.message = "Token expired" => ~ExpiryLater(tok, resp.at)
    /\ resp.message = "Invalid token" <=>
         (~SignatureOk(tok) \/ tok.expKind = "str")
    /\ resp.message = "Token verification error" <=>
         (SignatureOk(tok) /\ tok.expKind = "null")

C8_Witness ==
  /\ VerifyRejected
  /\ PassedTok = Garbage
  /\ resp.message = "Invalid token"


\* The claims of the token request r carries.
ClaimsOf(hdr) ==
  LET tok == TokenOf(split(hdr)[2]) IN [user_id |-> tok.userId, user_email |-> tok.email]

\* C9: however concurrent protected requests interleave, the id and email a
\* handler reads from its request (and create_post writes as author) are
\* those of that request's own token, and no request waits for another.
C9_EachRequestSeesItsOwnClaims ==
  /\ \A r \in Reqs :
       pc[r] = "handler" =>
         /\ ctx[CtxSlot(r)] = ClaimsOf(req[r].hdr)
         /\ ENABLED (HandlerVerifyToken(r) \/ HandlerCreatePost(r))
  /\ \A r \in Reqs : pc[r] = "idle" => ENABLED Enter(r)
  /\ resp.invoked =>
       /\ resp.userId = ClaimsOf(resp.hdr).user_id
       /\ resp.email = ClaimsOf(resp.hdr).user_email
  /\ (resp.route = "create_post" /\ resp.status = 201) =>
       /\ posts[Len(posts)].author_id = ClaimsOf(resp.hdr).user_id
       /\ posts[Len(posts)].author_email = ClaimsOf(resp.hdr).user_email

C9_Witness ==
  /\ \E r \in Reqs :
       /\ pc[r] = "handler"
       /\ ClaimsOf(req[r].hdr).user_id = "user-002"
  /\ resp.route = "create_post" /\ resp.status = 201
  /\ posts[Len(posts)].author_id = "user-001"

\* C10: the posts table changes only by a create_post request that passed
\* the gate with a non-empty title and a non-empty content, which appends one
\* row; every other request, and every request answered 401 or 400, leaves
\* it as it was.
C10_PostsChangeOnlyByAuthorizedCreate ==
  [][ /\ posts' # posts =>
           /\ resp'.route = "create_post"
           /\ resp'.invoked
           /\ resp'.status = 201
           /\ verify_jwt_token(TokenOf(resp'.passed[1]), now).ok
           /\ ~Falsy(resp'.inp[1]) /\ ~Falsy(resp'.inp[2])
           /\ Len(posts') = Len(posts) + 1
           /\ SubSeq(posts', 1, Len(posts)) = posts
      /\ (resp'.route # "create_post" \/ resp'.status \in {400, 401}) => posts' = posts
    ]_vars

C10_Witness ==
  /\ resp.route = "create_post" /\ resp.status = 201
  /\ Len(posts) > 0
  /\ posts[Len(posts)].title = "Hello"

====
